---- MODULE Spec2Model ----
(***************************************************************************)
(* A model of es_runtime's value bridge:                                   *)
(*   - utils.rs          AutoIdMap, the incrementing-id keyed store        *)
(*   - esvaluefacade.rs  EsValueFacade, its conversion from native values  *)
(*                       (new_v), the thread-local table of promise        *)
(*                       transmitters, resolve_future,                     *)
(*                       get_promise_result_blocking, the typed getters    *)
(*                       and the conversion back (to_es_value)             *)
(* Spec is the promise bridge (LiveSpec adds that a wait returns), MapSpec *)
(* is AutoIdMap and ConvSpec is the conversions and getters.               *)
(* Option<T> is modelled as a sequence of length 0 (None) or 1 (Some(x)).  *)
(* A HashMap is modelled as a function whose DOMAIN is its key set.        *)
(* A panic is an outcome of a call: the state is the one at the point of   *)
(* the panic and the outcome is recorded in the call record.               *)
(***************************************************************************)
EXTENDS Integers, Sequences, FiniteSets, TLC

VARIABLES
    auto_id_map,   \* utils.rs: one AutoIdMap instance, [last_id, map]
    map_call,      \* the last call on auto_id_map and what it returned
    issued,        \* the ids the caller got back from insert, in order
    PROMISE_RESOLUTION_TRANSMITTERS, \* per thread: obj_id -> channel (its Sender)
    chans,         \* the mpsc channels created by new_v, by index
    facades,       \* the EsValueFacades the host holds, by handle index
    waiting,       \* the host thread's position inside get_promise_result_blocking
    call,          \* the last call of the bridge and what it returned
    received,      \* per channel: how many messages recv_timeout gave the host
    conv_esvf,     \* the EsValueFacade a conversion made last (Option)
    conv_rval      \* the native value the engine made last (Option)

vars == <<auto_id_map, map_call, issued, PROMISE_RESOLUTION_TRANSMITTERS,
          chans, facades, waiting, call, received, conv_esvf, conv_rval>>

mapVars == <<auto_id_map, map_call, issued>>

bridgeVars == <<PROMISE_RESOLUTION_TRANSMITTERS, chans, facades, waiting,
                call, received>>

convVars == <<conv_esvf, conv_rval>>

(***************************************************************************)
(* Bounds of the model.                                                    *)
(***************************************************************************)
\* AutoIdMap::insert is called at most this many times (last_id is a usize:
\* the counter cannot wrap within any execution the model covers).
MaxInserts == 4
\* the ids the caller passes to replace/get/remove/contains_key: 0..MaxProbe
MaxProbe == 5
\* the host is handed at most this many facades by new_v (dropped ones count)
MaxFacades == 2
\* the conversions of one run of ConvSpec create at most this many channels
MaxChannels == 2

(***************************************************************************)
(* Option and HashMap                                                      *)
(***************************************************************************)
None == <<>>

Some(x) == <<x>>

is_some(opt) == Len(opt) > 0

unwrap(opt) == opt[1]

HashMap_new == [k \in {} |-> 0]

contains(m, k) == k \in DOMAIN m

\* HashMap::insert: the key's old value, if any, is replaced
HashMap_insert(m, k, v) == [x \in DOMAIN m \cup {k} |-> IF x = k THEN v ELSE m[x]]

\* HashMap::remove: the map without the key (the removed value is HashMap_get's)
HashMap_remove(m, k) == [x \in DOMAIN m \ {k} |-> m[x]]

\* HashMap::get and the value HashMap::remove returns: Option of the entry
HashMap_get(m, k) == IF k \in DOMAIN m THEN Some(m[k]) ELSE None

(***************************************************************************)
(* utils.rs: AutoIdMap                                                     *)
(***************************************************************************)
Elems == {"hi", "hi2"}

ProbeIds == 0..MaxProbe

AutoIdMap_new == [last_id |-> 0, map |-> HashMap_new]

\* a call's outcome: the struct afterwards and what the caller sees
Returns(self, v) == [self |-> self, panic |-> FALSE, ret |-> v]

Panics(self, msg) == [self |-> self, panic |-> TRUE, ret |-> msg]

AutoIdMap_insert_reuse(self, elem) ==
    LET id == Cardinality(DOMAIN self.map) + 1
    IN  Returns([last_id |-> id, map |-> HashMap_insert(self.map, id, elem)], id)

AutoIdMap_insert(self, elem) ==
    LET id == self.last_id + 1
    IN  Returns([last_id |-> id, map |-> HashMap_insert(self.map, id, elem)], id)

AutoIdMap_contains_key(self, id) == contains(self.map, id)

AutoIdMap_replace_upserts(self, id, elem) ==
    Returns([self EXCEPT !.map = HashMap_insert(self.map, id, elem)], "unit")

AutoIdMap_replace(self, id, elem) ==
    IF ~AutoIdMap_contains_key(self, id)
    THEN Panics(self, "no entry to replace for")
    ELSE Returns([self EXCEPT !.map = HashMap_insert(self.map, id, elem)], "unit")

AutoIdMap_get_panics(self, id) ==
    IF contains(self.map, id)
    THEN Returns(self, Some(self.map[id]))
    ELSE Panics(self, "no such elem")

AutoIdMap_get(self, id) == Returns(self, HashMap_get(self.map, id))

AutoIdMap_remove_quiet(self, id) ==
    Returns([self EXCEPT !.map = HashMap_remove(self.map, id)],
            IF contains(self.map, id) THEN self.map[id] ELSE "")

AutoIdMap_remove(self, id) ==
    LET opt == HashMap_get(self.map, id)
    IN  IF is_some(opt)
        THEN Returns([self EXCEPT !.map = HashMap_remove(self.map, id)], unwrap(opt))
        ELSE Panics(self, "no such elem")

AutoIdMap_len(self) == Cardinality(DOMAIN self.map)

NoCall == [op |-> "none", id |-> 0, elem |-> "", panic |-> FALSE, ret |-> "unit"]

MapInit ==
    /\ auto_id_map = AutoIdMap_new
    /\ map_call = NoCall
    /\ issued = <<>>

MapDo(op, id, elem, r) ==
    /\ auto_id_map' = r.self
    /\ map_call' = [op |-> op, id |-> id, elem |-> elem, panic |-> r.panic,
                    ret |-> r.ret]

Insert ==
    \E elem \in Elems :
        /\ Len(issued) < MaxInserts
        /\ LET r == AutoIdMap_insert(auto_id_map, elem)
           IN  /\ MapDo("insert", 0, elem, r)
               /\ issued' = Append(issued, r.ret)

Replace ==
    \E id \in ProbeIds, elem \in Elems :
        /\ MapDo("replace", id, elem, AutoIdMap_replace(auto_id_map, id, elem))
        /\ UNCHANGED issued

Get ==
    \E id \in ProbeIds :
        /\ MapDo("get", id, "", AutoIdMap_get(auto_id_map, id))
        /\ UNCHANGED issued

Remove ==
    \E id \in ProbeIds :
        /\ MapDo("remove", id, "", AutoIdMap_remove(auto_id_map, id))
        /\ UNCHANGED issued

Len_ ==
    /\ MapDo("len", 0, "", Returns(auto_id_map, AutoIdMap_len(auto_id_map)))
    /\ UNCHANGED issued

ContainsKey ==
    \E id \in ProbeIds :
        /\ MapDo("contains_key", id, "",
                 Returns(auto_id_map, AutoIdMap_contains_key(auto_id_map, id)))
        /\ UNCHANGED issued

(***************************************************************************)
(* Native values of the script engine (mozjs::jsapi::Value): a kind tag    *)
(* and a payload; an object's payload is the sequence of its own           *)
(* properties <<name, value>> in enumeration order.                        *)
(***************************************************************************)
BooleanValue(b) == [kind |-> "boolean", val |-> b]

Int32Value(i) == [kind |-> "int32", val |-> i]

DoubleValue(d) == [kind |-> "double", val |-> d]

StringValue(s) == [kind |-> "string", val |-> s]

ObjectValue(props) == [kind |-> "object", val |-> props]

UndefinedValue == [kind |-> "undefined", val |-> 0]

\* a value for which none of is_boolean .. is_object holds, apart from undefined
NullValue == [kind |-> "null", val |-> 0]

SymbolValue == [kind |-> "symbol", val |-> 0]

Sentinel == "__esses_future_obj_id"

\* the object the engine-side script hands out for a promise with this id
FutureObject(id) ==
    ObjectValue(<< <<Sentinel, Int32Value(id)>>, <<"state", StringValue("pending")>> >>)

FutureIds == {1, 2}

\* an object with a property of every kind: the object of test_get_object
\* with a double, an undefined and a future-like object added
MixedObject ==
    ObjectValue(<< <<"a", Int32Value(1)>>, <<"b", BooleanValue(TRUE)>>,
                   <<"c", StringValue("hello")>>,
                   <<"d", ObjectValue(<< <<"a", Int32Value(2)>> >>)>>,
                   <<"f", DoubleValue("0.5")>>, <<"u", UndefinedValue>>,
                   <<"p", FutureObject(1)>> >>)

\* what the engine hands to new_v
NativeValues == {MixedObject} \cup {FutureObject(id) : id \in FutureIds}

\* es_utils::get_js_obj_prop_names: the own property names, in order
get_js_obj_prop_names(obj) == [i \in 1..Len(obj.val) |-> obj.val[i][1]]

\* es_utils::get_es_obj_prop_val: the value of the property with that name
get_es_obj_prop_val(obj, name) ==
    LET i == CHOOSE k \in 1..Len(obj.val) : obj.val[k][1] = name
    IN  obj.val[i][2]

\* es_utils::es_value_to_str: the characters of a script string
es_value_to_str(rval) == rval.val

\* es_utils::new_es_value_from_str: the script string with those characters
new_es_value_from_str(s) == StringValue(s)

\* es_utils::new_object: a fresh object without own properties
new_object == ObjectValue(<<>>)

\* es_utils::set_es_obj_prop_val: the property is set, after the ones there are
set_es_obj_prop_val(obj, prop_name, prop_val) ==
    ObjectValue(Append(SelectSeq(obj.val, LAMBDA p : p[1] # prop_name),
                       <<prop_name, prop_val>>))

(***************************************************************************)
(* esvaluefacade.rs: EsValueFacade, a struct of six Options                *)
(***************************************************************************)
undefined ==
    [val_string |-> None, val_i32 |-> None, val_f64 |-> None,
     val_boolean |-> None, val_managed_var |-> None, val_object |-> None]

new_f64(num) == [undefined EXCEPT !.val_f64 = Some(num)]

new_obj(props) == [undefined EXCEPT !.val_object = Some(props)]

new_i32(num) == [undefined EXCEPT !.val_i32 = Some(num)]

new_str(s) == [undefined EXCEPT !.val_string = Some(s)]

new_bool(b) == [undefined EXCEPT !.val_boolean = Some(b)]

RustManagedEsVar_zero_id(obj_id, opt_receiver) ==
    [obj_id |-> 0, opt_receiver |-> opt_receiver]

RustManagedEsVar(obj_id, opt_receiver) ==
    [obj_id |-> obj_id, opt_receiver |-> opt_receiver]

is_string(self) == is_some(self.val_string)

is_i32(self) == is_some(self.val_i32)

is_f64(self) == is_some(self.val_f64)

is_boolean(self) == is_some(self.val_boolean)

is_managed_object(self) == is_some(self.val_managed_var)

is_object(self) == is_some(self.val_object)

is_promise(self) == is_managed_object(self)

\* Option::expect and Option::unwrap as a call's outcome: the value, or a panic
expect(opt, msg) ==
    IF is_some(opt)
    THEN [panic |-> FALSE, ret |-> unwrap(opt)]
    ELSE [panic |-> TRUE, ret |-> msg]

get_string(self) == expect(self.val_string, "not a string")

get_i32_or_default(self) ==
    IF is_some(self.val_i32)
    THEN [panic |-> FALSE, ret |-> unwrap(self.val_i32)]
    ELSE [panic |-> FALSE, ret |-> 0]

get_i32(self) == expect(self.val_i32, "i am not a i32")

get_f64(self) == expect(self.val_f64, "i am not a f64")

get_boolean(self) == expect(self.val_boolean, "i am not a boolean")

get_object(self) ==
    expect(self.val_object, "called Option::unwrap() on a None value")

(***************************************************************************)
(* EsValueFacade::to_es_value. The properties of an object are set in the  *)
(* iteration order of the HashMap, which is any order of its keys: the     *)
(* operator gives the set of the native values the call can return.        *)
(***************************************************************************)
Orders(keys) ==
    {o \in [1..Cardinality(keys) -> keys] :
        \A i, j \in 1..Cardinality(keys) : i # j => o[i] # o[j]}

RECURSIVE to_es_value(_)
RECURSIVE to_es_value_props(_, _, _, _)

\* the loop over map of to_es_value in one iteration order, from the i-th
\* entry on: objs are the objects built so far
to_es_value_props(map, order, i, objs) ==
    IF i > Cardinality(DOMAIN map)
    THEN objs
    ELSE to_es_value_props(map, order, i + 1,
             {set_es_obj_prop_val(obj, order[i], prop_val) :
                  obj \in objs, prop_val \in to_es_value(map[order[i]])})

to_es_value_f64_as_int(self) ==
    IF is_i32(self) \/ is_f64(self)
    THEN {Int32Value(0)}
    ELSE IF is_boolean(self)
    THEN {BooleanValue(get_boolean(self).ret)}
    ELSE IF is_string(self)
    THEN {new_es_value_from_str(get_string(self).ret)}
    ELSE {UndefinedValue}

to_es_value(self) ==
    IF is_i32(self)
    THEN {Int32Value(get_i32(self).ret)}
    ELSE IF is_f64(self)
    THEN {DoubleValue(get_f64(self).ret)}
    ELSE IF is_boolean(self)
    THEN {BooleanValue(get_boolean(self).ret)}
    ELSE IF is_string(self)
    THEN {new_es_value_from_str(get_string(self).ret)}
    ELSE IF is_object(self)
    THEN LET map == get_object(self).ret
         IN  UNION {to_es_value_props(map, order, 1, {new_object}) :
                        order \in Orders(DOMAIN map)}
    ELSE {UndefinedValue}

(***************************************************************************)
(* std::sync::mpsc channels: the queue, and whether each half is alive.    *)
(* A channel is named by its index in chans; a Sender or a Receiver is     *)
(* that index held in the table or in a RustManagedEsVar.                  *)
(***************************************************************************)
Ok(x) == <<"Ok", x>>

Err(x) == <<"Err", x>>

is_ok(r) == r[1] = "Ok"

channel == [queue |-> <<>>, sender |-> TRUE, receiver |-> TRUE]

Sender_send_ok_only(ch, res) ==
    IF ch.receiver
    THEN [ch |-> [ch EXCEPT !.queue = Append(@, Ok(res[2]))], ret |-> Ok("unit")]
    ELSE [ch |-> ch, ret |-> Err("SendError")]

Sender_send_always_ok(ch, res) ==
    [ch |-> [ch EXCEPT !.queue = Append(@, res)], ret |-> Ok("unit")]

\* Sender::send: fails when the Receiver is gone, queues otherwise
Sender_send(ch, res) ==
    IF ch.receiver
    THEN [ch |-> [ch EXCEPT !.queue = Append(@, res)], ret |-> Ok("unit")]
    ELSE [ch |-> ch, ret |-> Err("SendError")]

\* dropping a Sender (the only one of its channel)
drop_sender(chs, c) == [chs EXCEPT ![c].sender = FALSE]

\* dropping a Receiver frees what is still queued
drop_receiver(ch) == [ch EXCEPT !.receiver = FALSE, !.queue = <<>>]

Receiver_recv_timeout_disconnect_first(ch) ==
    IF ~ch.sender
    THEN [ch |-> ch, ret |-> Err("Disconnected")]
    ELSE IF ch.queue # <<>>
         THEN [ch |-> [ch EXCEPT !.queue = Tail(@)], ret |-> Ok(Head(ch.queue))]
         ELSE [ch |-> ch, ret |-> Err("Timeout")]

Receiver_recv_timeout_never_disconnects(ch) ==
    IF ch.queue # <<>>
    THEN [ch |-> [ch EXCEPT !.queue = Tail(@)], ret |-> Ok(Head(ch.queue))]
    ELSE [ch |-> ch, ret |-> Err("Timeout")]

\* Receiver::recv_timeout once the wait is over: a queued message first, a
\* disconnect when the queue is empty and no Sender is left, and otherwise the
\* deadline has passed with nothing sent
Receiver_recv_timeout(ch) ==
    IF ch.queue # <<>>
    THEN [ch |-> [ch EXCEPT !.queue = Tail(@)], ret |-> Ok(Head(ch.queue))]
    ELSE IF ~ch.sender
         THEN [ch |-> ch, ret |-> Err("Disconnected")]
         ELSE [ch |-> ch, ret |-> Err("Timeout")]

(***************************************************************************)
(* thread_local!: every thread has its own instance of the static, and     *)
(* LocalKey::with gives the calling thread its own.                        *)
(***************************************************************************)
LocalKey_with_shared(key, t) == key[CHOOSE u \in DOMAIN key : TRUE]

LocalKey_with(key, t) == key[t]

(***************************************************************************)
(* EsValueFacade::new_v, on the thread whose table is txs. The conversion  *)
(* threads the table and the channels through the recursion and returns    *)
(* [esvf, txs, chans].                                                     *)
(***************************************************************************)
InSeq(x, seq) == \E i \in 1..Len(seq) : seq[i] = x

transmitters_insert_skips(txs, chs, obj_id, c) ==
    [txs |-> txs, chans |-> drop_sender(chs, c)]

\* map.insert(obj_id, tx): the entry is set; a Sender it replaces is dropped
transmitters_insert(txs, chs, obj_id, c) ==
    [txs   |-> HashMap_insert(txs, obj_id, c),
     chans |-> IF contains(txs, obj_id) THEN drop_sender(chs, txs[obj_id]) ELSE chs]

RECURSIVE new_v(_, _, _)
RECURSIVE new_v_props(_, _, _, _, _, _)

new_v_props_first_only(obj, prop_names, i, map, txs, chs) ==
    IF i > Len(prop_names)
    THEN [map |-> map, txs |-> txs, chans |-> chs]
    ELSE LET r == new_v(get_es_obj_prop_val(obj, prop_names[i]), txs, chs)
         IN  [map |-> HashMap_insert(map, prop_names[i], r.esvf),
              txs |-> r.txs, chans |-> r.chans]

\* the loop over prop_names of new_v, from the i-th name on
new_v_props(obj, prop_names, i, map, txs, chs) ==
    IF i > Len(prop_names)
    THEN [map |-> map, txs |-> txs, chans |-> chs]
    ELSE LET prop_name == prop_names[i]
             prop_val  == get_es_obj_prop_val(obj, prop_name)
             r         == new_v(prop_val, txs, chs)
         IN  new_v_props(obj, prop_names, i + 1,
                         HashMap_insert(map, prop_name, r.esvf), r.txs, r.chans)

new_v_stringifies(rval, txs, chs) ==
    [esvf |-> IF rval.kind = "boolean" THEN new_bool(rval.val)
              ELSE IF rval.kind = "int32" THEN new_i32(rval.val)
              ELSE IF rval.kind = "double" THEN new_f64(rval.val)
              ELSE IF rval.kind = "string" THEN new_str(rval.val)
              ELSE IF rval.kind = "object" THEN new_obj(HashMap_new)
              ELSE new_str(rval.kind),
     txs |-> txs, chans |-> chs]

new_v(rval, txs, chs) ==
    IF rval.kind = "boolean"
    THEN [esvf |-> [undefined EXCEPT !.val_boolean = Some(rval.val)],
          txs |-> txs, chans |-> chs]
    ELSE IF rval.kind = "int32"
    THEN [esvf |-> [undefined EXCEPT !.val_i32 = Some(rval.val)],
          txs |-> txs, chans |-> chs]
    ELSE IF rval.kind = "double"
    THEN [esvf |-> [undefined EXCEPT !.val_f64 = Some(rval.val)],
          txs |-> txs, chans |-> chs]
    ELSE IF rval.kind = "string"
    THEN [esvf |-> [undefined EXCEPT !.val_string = Some(es_value_to_str(rval))],
          txs |-> txs, chans |-> chs]
    ELSE IF rval.kind = "object"
    THEN LET prop_names == get_js_obj_prop_names(rval)
         IN  IF InSeq(Sentinel, prop_names)
             THEN LET obj_id == get_es_obj_prop_val(rval, Sentinel).val
                      c      == Len(chs) + 1
                      reg    == transmitters_insert(txs, Append(chs, channel), obj_id, c)
                      rmev   == RustManagedEsVar(obj_id, Some(c))
                  IN  [esvf |-> [undefined EXCEPT !.val_managed_var = Some(rmev),
                                                  !.val_object = Some(HashMap_new)],
                       txs |-> reg.txs, chans |-> reg.chans]
             ELSE LET r == new_v_props(rval, prop_names, 1, HashMap_new, txs, chs)
                  IN  [esvf |-> [undefined EXCEPT !.val_object = Some(r.map)],
                       txs |-> r.txs, chans |-> r.chans]
    ELSE [esvf |-> undefined, txs |-> txs, chans |-> chs]

get_managed_object_id(self) ==
    LET rmev == expect(self.val_managed_var, "not a managed var")
    IN  IF rmev.panic THEN rmev ELSE [panic |-> FALSE, ret |-> rmev.ret.obj_id]

\* the Receiver a managed facade holds
receiver_of(self) == unwrap(unwrap(self.val_managed_var).opt_receiver)

RECURSIVE SubFacades(_)
\* a facade and every facade reachable from it through get_object()
SubFacades(self) ==
    {self} \cup
    (IF is_object(self)
     THEN LET m == unwrap(self.val_object)
          IN  UNION {SubFacades(m[k]) : k \in DOMAIN m}
     ELSE {})

\* the Receivers a facade owns, which its drop drops
Receivers(self) == {receiver_of(e) : e \in {x \in SubFacades(self) : is_managed_object(x)}}

(***************************************************************************)
(* EsValueFacade::resolve_future on the thread whose table is txs          *)
(***************************************************************************)
resolve_future_keeps_entry(txs, chs, man_obj_id, res) ==
    LET opt == HashMap_get(txs, man_obj_id)
    IN  IF is_some(opt)
        THEN LET c    == unwrap(opt)
                 sent == Sender_send(chs[c], res)
             IN  IF is_ok(sent.ret)
                 THEN [txs |-> txs, chans |-> [chs EXCEPT ![c] = sent.ch],
                       panic |-> FALSE, ret |-> "unit"]
                 ELSE [txs |-> txs, chans |-> chs, panic |-> TRUE,
                       ret |-> "could not send res"]
        ELSE [txs |-> txs, chans |-> chs, panic |-> TRUE,
              ret |-> "no transmitter found"]

resolve_future_clears_table(txs, chs, man_obj_id, res) ==
    LET opt == HashMap_get(txs, man_obj_id)
    IN  IF is_some(opt)
        THEN LET c    == unwrap(opt)
                 sent == Sender_send(chs[c], res)
                 chs2 == drop_sender([chs EXCEPT ![c] = sent.ch], c)
             IN  [txs |-> HashMap_new, chans |-> chs2, panic |-> ~is_ok(sent.ret),
                  ret |-> IF is_ok(sent.ret) THEN "unit" ELSE "could not send res"]
        ELSE [txs |-> HashMap_new, chans |-> chs, panic |-> TRUE,
              ret |-> "no transmitter found"]

resolve_future(txs, chs, man_obj_id, res) ==
    LET opt == HashMap_get(txs, man_obj_id)
        map == HashMap_remove(txs, man_obj_id)
    IN  IF is_some(opt)
        THEN LET c    == unwrap(opt)
                 sent == Sender_send(chs[c], res)
                 \* the Sender was moved out of the map and is dropped here
                 chs2 == drop_sender([chs EXCEPT ![c] = sent.ch], c)
             IN  IF is_ok(sent.ret)
                 THEN [txs |-> map, chans |-> chs2, panic |-> FALSE, ret |-> "unit"]
                 ELSE [txs |-> map, chans |-> chs2, panic |-> TRUE,
                       ret |-> "could not send res"]
        ELSE [txs |-> map, chans |-> chs, panic |-> TRUE,
              ret |-> "no transmitter found"]

(***************************************************************************)
(* EsValueFacade::get_promise_result_blocking, as of the moment it         *)
(* returns: blocks says whether recv_timeout was reached                   *)
(***************************************************************************)
NotAPromise == Ok(Err(new_str("esvf was not a Promise")))

get_promise_result_blocking_takes_rx(self, chs) ==
    IF ~is_promise(self)
    THEN [blocks |-> FALSE, chans |-> chs, panic |-> FALSE, ret |-> NotAPromise]
    ELSE LET rx == receiver_of(self)
             r  == Receiver_recv_timeout(chs[rx])
         IN  [blocks |-> TRUE,
              chans |-> [chs EXCEPT ![rx] = IF is_ok(r.ret) THEN r.ch
                                            ELSE drop_receiver(r.ch)],
              panic |-> FALSE, ret |-> r.ret]

get_promise_result_blocking_expects(self, chs) ==
    IF ~is_managed_object(self)
    THEN [blocks |-> FALSE, chans |-> chs, panic |-> TRUE, ret |-> <<"not a managed var">>]
    ELSE LET rx == receiver_of(self)
             r  == Receiver_recv_timeout(chs[rx])
         IN  [blocks |-> TRUE, chans |-> [chs EXCEPT ![rx] = r.ch], panic |-> FALSE,
              ret |-> r.ret]

get_promise_result_blocking(self, chs) ==
    IF ~is_promise(self)
    THEN [blocks |-> FALSE, chans |-> chs, panic |-> FALSE, ret |-> NotAPromise]
    ELSE LET rx == receiver_of(self)
             r  == Receiver_recv_timeout(chs[rx])
         IN  [blocks |-> TRUE, chans |-> [chs EXCEPT ![rx] = r.ch], panic |-> FALSE,
              ret |-> r.ret]

(***************************************************************************)
(* The bridge as a state machine                                           *)
(***************************************************************************)
Threads == {"worker1", "worker2"}

\* what the engine settles promises with
Settlements == {Ok(new_i32(123)), Err(new_str("foo"))}

\* what the last call was and how it ended: with a panic or with a return value
Call(op, panic, ret) == [op |-> op, panic |-> panic, ret |-> ret]

BridgeInit ==
    /\ PROMISE_RESOLUTION_TRANSMITTERS = [t \in Threads |-> HashMap_new]
    /\ chans = <<>>
    /\ facades = <<>>
    /\ waiting = None
    /\ call = Call("none", FALSE, <<>>)
    /\ received = <<>>

\* a worker thread converts a native value and hands the facade to the host
NewV(t, rval) ==
    /\ Len(facades) < MaxFacades
    /\ LET r == new_v(rval, LocalKey_with(PROMISE_RESOLUTION_TRANSMITTERS, t), chans)
       IN  /\ PROMISE_RESOLUTION_TRANSMITTERS' =
                  [PROMISE_RESOLUTION_TRANSMITTERS EXCEPT ![t] = r.txs]
           /\ chans' = r.chans
           /\ received' = [c \in 1..Len(r.chans) |->
                              IF c <= Len(received) THEN received[c] ELSE 0]
           /\ facades' = Append(facades, Some(r.esvf))
           /\ call' = Call("new_v", FALSE, <<>>)
    /\ UNCHANGED waiting

\* the engine's completion callback on a worker thread
ResolveFuture(t, id, res) ==
    /\ LET r == resolve_future(LocalKey_with(PROMISE_RESOLUTION_TRANSMITTERS, t), chans,
                               id, res)
       IN  /\ PROMISE_RESOLUTION_TRANSMITTERS' =
                  [PROMISE_RESOLUTION_TRANSMITTERS EXCEPT ![t] = r.txs]
           /\ chans' = r.chans
           /\ call' = Call("resolve_future", r.panic, <<r.ret>>)
    /\ UNCHANGED <<facades, waiting, received>>

\* the host drops a facade it holds (not one it is waiting on: that one is borrowed)
DropFacade(h) ==
    /\ h \in 1..Len(facades)
    /\ is_some(facades[h])
    /\ ~(is_some(waiting) /\ unwrap(waiting).handle = h)
    /\ facades' = [facades EXCEPT ![h] = None]
    /\ chans' = [c \in 1..Len(chans) |->
                    IF c \in Receivers(unwrap(facades[h]))
                    THEN drop_receiver(chans[c]) ELSE chans[c]]
    /\ call' = Call("drop", FALSE, <<>>)
    /\ UNCHANGED <<PROMISE_RESOLUTION_TRANSMITTERS, waiting, received>>

\* get_promise_result_blocking up to recv_timeout: a facade that is no promise
\* returns at once, a promise starts to wait on its Receiver
WaitCall(h, self) ==
    /\ waiting = None
    /\ h \in 1..Len(facades)
    /\ is_some(facades[h])
    /\ self \in SubFacades(unwrap(facades[h]))
    /\ LET r == get_promise_result_blocking(self, chans)
       IN  IF ~r.blocks
           THEN /\ call' = Call("get_promise_result_blocking", r.panic, r.ret)
                /\ UNCHANGED waiting
           ELSE /\ waiting' = Some([handle |-> h, esvf |-> self])
                /\ call' = Call("recv_timeout", FALSE, <<>>)
    /\ UNCHANGED <<PROMISE_RESOLUTION_TRANSMITTERS, chans, facades, received>>

\* the host's count of the messages a Receiver gave it
Count(n, ret) == IF is_ok(ret) THEN n + 1 ELSE n

\* recv_timeout returns: with the message, with a disconnect, or at the deadline
WaitReturn ==
    /\ is_some(waiting)
    /\ LET w == unwrap(waiting)
           r == get_promise_result_blocking(w.esvf, chans)
       IN  /\ chans' = r.chans
           /\ received' = [received EXCEPT ![receiver_of(w.esvf)] = Count(@, r.ret)]
           /\ call' = Call("get_promise_result_blocking", r.panic, r.ret)
    /\ waiting' = None
    /\ UNCHANGED <<PROMISE_RESOLUTION_TRANSMITTERS, facades>>

ConvInit ==
    /\ conv_esvf = None
    /\ conv_rval = None

Init == MapInit /\ BridgeInit /\ ConvInit

Next ==
    \/ \E t \in Threads, rval \in NativeValues : NewV(t, rval) /\ UNCHANGED <<mapVars, convVars>>
    \/ \E t \in Threads, id \in FutureIds, res \in Settlements :
           ResolveFuture(t, id, res) /\ UNCHANGED <<mapVars, convVars>>
    \/ \E h \in 1..MaxFacades : DropFacade(h) /\ UNCHANGED <<mapVars, convVars>>
    \/ \E h \in 1..MaxFacades :
           \E self \in (IF h <= Len(facades) /\ is_some(facades[h])
                        THEN SubFacades(unwrap(facades[h])) ELSE {}) :
               WaitCall(h, self) /\ UNCHANGED <<mapVars, convVars>>
    \/ WaitReturn /\ UNCHANGED <<mapVars, convVars>>

Spec == Init /\ [][Next]_vars

\* recv_timeout returns at its deadline at the latest
LiveSpec == Spec /\ WF_vars(WaitReturn /\ UNCHANGED <<mapVars, convVars>>)

MapNext ==
    \/ Insert /\ UNCHANGED <<bridgeVars, convVars>>
    \/ Replace /\ UNCHANGED <<bridgeVars, convVars>>
    \/ Get /\ UNCHANGED <<bridgeVars, convVars>>
    \/ Remove /\ UNCHANGED <<bridgeVars, convVars>>
    \/ Len_ /\ UNCHANGED <<bridgeVars, convVars>>
    \/ ContainsKey /\ UNCHANGED <<bridgeVars, convVars>>

MapSpec == Init /\ [][MapNext]_vars

(***************************************************************************)
(* The conversions as a state machine: the engine evaluates a script to a  *)
(* native value, new_v converts the engine's value to a facade, the host   *)
(* builds a facade with a constructor, to_es_value converts the facade to  *)
(* a native value, and the host calls a getter on the facade.              *)
(***************************************************************************)
\* the object of test_get_object
TestObject ==
    ObjectValue(<< <<"a", Int32Value(1)>>, <<"b", BooleanValue(TRUE)>>,
                   <<"c", StringValue("hello")>>,
                   <<"d", ObjectValue(<< <<"a", Int32Value(2)>> >>)>> >>)

\* what a script evaluates to: a value of every kind
ScriptValues ==
    {BooleanValue(TRUE), BooleanValue(FALSE), Int32Value(221), Int32Value(0),
     DoubleValue("0.76"), StringValue("221"), StringValue(""), UndefinedValue,
     NullValue, SymbolValue, new_object, TestObject, FutureObject(1)}

\* what the host builds with the constructors
HostFacades ==
    {undefined, new_str("hello"), new_str(""), new_i32(221), new_i32(0),
     new_f64("0.76"), new_bool(FALSE), new_bool(TRUE),
     new_obj(HashMap_new),
     new_obj(HashMap_insert(HashMap_new, "p1", new_str("hello"))),
     new_obj(HashMap_insert(HashMap_insert(HashMap_new, "n", new_i32(1)), "o",
                 new_obj(HashMap_insert(HashMap_new, "p1", new_bool(TRUE)))))}

GetterNames ==
    {"get_string", "get_i32", "get_f64", "get_boolean", "get_object",
     "get_managed_object_id"}

\* the getter of that name, called on self
getter(name, self) ==
    CASE name = "get_string" -> get_string(self)
      [] name = "get_i32" -> get_i32(self)
      [] name = "get_f64" -> get_f64(self)
      [] name = "get_boolean" -> get_boolean(self)
      [] name = "get_object" -> get_object(self)
      [] name = "get_managed_object_id" -> get_managed_object_id(self)

\* the channels after the facade in conv_esvf, if any, was dropped
drop_esvf(opt, chs) ==
    [c \in 1..Len(chs) |->
        IF is_some(opt) /\ c \in Receivers(unwrap(opt))
        THEN drop_receiver(chs[c]) ELSE chs[c]]

\* the engine evaluates a script
Eval(rval) ==
    /\ conv_rval' = Some(rval)
    /\ call' = Call("eval", FALSE, <<>>)
    /\ UNCHANGED <<conv_esvf, PROMISE_RESOLUTION_TRANSMITTERS, chans, received>>

\* the host builds a facade; the one it held is dropped
Construct(esvf) ==
    /\ conv_esvf' = Some(esvf)
    /\ chans' = drop_esvf(conv_esvf, chans)
    /\ call' = Call("new", FALSE, <<>>)
    /\ UNCHANGED <<conv_rval, PROMISE_RESOLUTION_TRANSMITTERS, received>>

\* thread t converts the engine's value; the facade held before is dropped
FromNative(t) ==
    /\ is_some(conv_rval)
    /\ LET r == new_v(unwrap(conv_rval), LocalKey_with(PROMISE_RESOLUTION_TRANSMITTERS, t),
                      chans)
       IN  /\ Len(r.chans) <= MaxChannels
           /\ PROMISE_RESOLUTION_TRANSMITTERS' =
                  [PROMISE_RESOLUTION_TRANSMITTERS EXCEPT ![t] = r.txs]
           /\ chans' = drop_esvf(conv_esvf, r.chans)
           /\ received' = [c \in 1..Len(r.chans) |->
                              IF c <= Len(received) THEN received[c] ELSE 0]
           /\ conv_esvf' = Some(r.esvf)
           /\ call' = Call("new_v", FALSE, <<>>)
    /\ UNCHANGED conv_rval

\* the facade is converted to a native value
ToEsValue ==
    /\ is_some(conv_esvf)
    /\ \E rval \in to_es_value(unwrap(conv_esvf)) : conv_rval' = Some(rval)
    /\ call' = Call("to_es_value", FALSE, <<>>)
    /\ UNCHANGED <<conv_esvf, PROMISE_RESOLUTION_TRANSMITTERS, chans, received>>

\* the host calls a getter on the facade
Getter(name) ==
    /\ is_some(conv_esvf)
    /\ LET r == getter(name, unwrap(conv_esvf))
       IN  call' = Call(name, r.panic, <<r.ret>>)
    /\ UNCHANGED <<conv_esvf, conv_rval, PROMISE_RESOLUTION_TRANSMITTERS, chans,
                   received>>

convFrame == <<mapVars, facades, waiting>>

ConvNext ==
    \/ \E rval \in ScriptValues : Eval(rval) /\ UNCHANGED convFrame
    \/ \E esvf \in HostFacades : Construct(esvf) /\ UNCHANGED convFrame
    \/ \E t \in Threads : FromNative(t) /\ UNCHANGED convFrame
    \/ ToEsValue /\ UNCHANGED convFrame
    \/ \E name \in GetterNames : Getter(name) /\ UNCHANGED convFrame

ConvSpec == Init /\ [][ConvNext]_vars

(***************************************************************************)
(* Claims about the promise bridge (checked under Spec)                    *)
(***************************************************************************)
Channels == 1..Len(chans)

\* the managed facades the host holds, at any depth
HeldManaged ==
    UNION {{e \in SubFacades(unwrap(facades[h])) : is_managed_object(e)} :
           h \in {x \in 1..Len(facades) : is_some(facades[x])}}

\* the number of messages a channel has carried so far
Carried(c) == received[c] + Len(chans[c].queue)

Table(t) == PROMISE_RESOLUTION_TRANSMITTERS[t]

\* the own property names of a native object, and whether it is future-like
PropNames(obj) == {obj.val[i][1] : i \in 1..Len(obj.val)}

HasSentinel(obj) == Sentinel \in PropNames(obj)

\* C1: a channel registered by new_v carries at most one result, so the host
\* receives at most one result through a handle, and exactly the one settle
\* once it has waited; a resolve_future for an id that has no entry (the
\* second settle of an id that was not registered again) panics and changes
\* neither the table nor any channel nor what the host received.
C1_ExactlyOnceSettlement ==
    /\ [](\A c \in Channels : Carried(c) <= 1)
    /\ [][call'.op = "resolve_future" =>
        \A t \in Threads, id \in FutureIds, res \in Settlements :
            ResolveFuture(t, id, res) =>
                /\ ~contains(Table(t)', id)
                /\ contains(Table(t), id) /\ ~call'.panic =>
                       /\ Carried(Table(t)[id]) = 0
                       /\ chans'[Table(t)[id]].queue = <<res>>
                /\ ~contains(Table(t), id) =>
                       /\ call'.panic
                       /\ call'.ret = <<"no transmitter found">>
                       /\ UNCHANGED <<PROMISE_RESOLUTION_TRANSMITTERS, chans, received>>
       ]_vars
    /\ [][WaitReturn => \A c \in Channels : received'[c] <= 1]_vars

\* a second settle, after the first one was received by the host
C1_Witness ==
    /\ call.op = "resolve_future"
    /\ call.panic
    /\ call.ret = <<"no transmitter found">>
    /\ \E c \in Channels : received[c] = 1 /\ ~chans[c].sender
    /\ \A t \in Threads : DOMAIN Table(t) = {}

\* C2: resolve_future for an id in the calling thread's table removes that
\* entry and sends the result through the removed Sender: afterwards the id
\* is absent, every other entry of that table and every other thread's table
\* is as before, and the result is queued on that entry's channel (when its
\* Receiver is alive); for an id with no entry it panics and the tables are
\* unchanged.
C2_SettleRemovesThenSends ==
    [][call'.op = "resolve_future" =>
        \A t \in Threads, id \in FutureIds, res \in Settlements :
          ResolveFuture(t, id, res) =>
              IF contains(Table(t), id)
              THEN LET c == Table(t)[id]
                   IN  /\ DOMAIN Table(t)' = DOMAIN Table(t) \ {id}
                       /\ \A k \in DOMAIN Table(t)' : Table(t)'[k] = Table(t)[k]
                       /\ \A u \in Threads \ {t} : Table(u)' = Table(u)
                       /\ chans[c].receiver =>
                              chans'[c].queue = Append(chans[c].queue, res)
                       /\ \A d \in Channels \ {c} : chans'[d] = chans[d]
              ELSE /\ call'.panic
                   /\ PROMISE_RESOLUTION_TRANSMITTERS' = PROMISE_RESOLUTION_TRANSMITTERS
      ]_vars

\* a settle that went through while the same table holds another entry
C2_Witness ==
    /\ call.op = "resolve_future"
    /\ ~call.panic
    /\ \E t \in Threads, c \in Channels :
           /\ chans[c].queue # <<>>
           /\ DOMAIN Table(t) # {}
           /\ \E h \in 1..Len(facades) :
                  /\ is_some(facades[h])
                  /\ is_managed_object(unwrap(facades[h]))
                  /\ receiver_of(unwrap(facades[h])) = c
                  /\ get_managed_object_id(unwrap(facades[h])).ret \notin DOMAIN Table(t)

\* C3: when the wait on a managed facade ends in a timeout, no table and no
\* channel has changed, the entry for its id is still in a table and leads to
\* the facade's channel, a resolve_future for that id on that thread then
\* returns without a panic, and a retry of the wait on the same facade then
\* returns the settled result.
C3_TimeoutKeepsEntry ==
    [][(WaitReturn /\ call'.ret = Err("Timeout")) =>
          LET self == unwrap(waiting).esvf
              id   == get_managed_object_id(self).ret
              rx   == receiver_of(self)
          IN  /\ UNCHANGED <<PROMISE_RESOLUTION_TRANSMITTERS, chans, received, facades>>
              /\ \E t \in Threads : HashMap_get(Table(t), id) = Some(rx)
              /\ \A t \in Threads, res \in Settlements :
                     HashMap_get(Table(t), id) = Some(rx) =>
                         LET s == resolve_future(Table(t)', chans', id, res)
                         IN  /\ ~s.panic
                             /\ get_promise_result_blocking(self, s.chans).ret = Ok(res)
      ]_vars

\* a wait that timed out
C3_Witness ==
    /\ call.op = "get_promise_result_blocking"
    /\ call.ret = Err("Timeout")
    /\ waiting = None
    /\ \E t \in Threads : DOMAIN Table(t) # {}

\* C4: get_promise_result_blocking on a facade that is not a managed future
\* returns Ok(Err("esvf was not a Promise")) at once: it does not panic, does
\* not reach recv_timeout, and leaves the tables, the channels and what the
\* host received unchanged.
C4_NotAPromiseReturnsAtOnce ==
    [][(waiting = None /\ call'.op = "get_promise_result_blocking") =>
        \A h \in 1..MaxFacades :
          \A self \in (IF h <= Len(facades) /\ is_some(facades[h])
                       THEN SubFacades(unwrap(facades[h])) ELSE {}) :
              (WaitCall(h, self) /\ ~is_managed_object(self)) =>
                  /\ call'.op = "get_promise_result_blocking"
                  /\ ~call'.panic
                  /\ call'.ret = Ok(Err(new_str("esvf was not a Promise")))
                  /\ waiting' = None
                  /\ UNCHANGED <<PROMISE_RESOLUTION_TRANSMITTERS, chans, received>>
      ]_vars

\* the wait on a facade that is no promise has returned, with futures pending
C4_Witness ==
    /\ call.op = "get_promise_result_blocking"
    /\ call.ret = NotAPromise
    /\ \E t \in Threads : DOMAIN Table(t) # {}

\* C5: the host receives exactly what was passed to resolve_future, branch
\* included: after a resolve_future(id, res) that returned, the wait on the
\* facade of that entry returns Ok(res); a wait returns Ok(m) only for the
\* message m at the head of its channel, and an outer Err (timeout,
\* disconnect) only when its channel holds no message.
C5_ResultBranchPreserved ==
    /\ [][call'.op = "resolve_future" =>
        \A t \in Threads, id \in FutureIds, res \in Settlements :
            (ResolveFuture(t, id, res) /\ ~call'.panic) =>
                \A self \in HeldManaged :
                    receiver_of(self) = Table(t)[id] =>
                        get_promise_result_blocking(self, chans').ret = Ok(res)
       ]_vars
    /\ [][WaitReturn =>
            LET rx == receiver_of(unwrap(waiting).esvf)
            IN  IF chans[rx].queue # <<>>
                THEN /\ call'.ret = Ok(Head(chans[rx].queue))
                     /\ received'[rx] = received[rx] + 1
                     /\ Head(chans[rx].queue) \in Settlements
                ELSE /\ call'.ret \in {Err("Timeout"), Err("Disconnected")}
                     /\ received' = received
       ]_vars

\* the host has received a rejection
C5_Witness ==
    /\ call.op = "get_promise_result_blocking"
    /\ call.ret = Ok(Err(new_str("foo")))
    /\ \E c \in Channels : received[c] = 1

C7_RegisterKeepsLiveEntry ==
    [][call'.op = "new_v" =>
        \A t \in Threads, rval \in NativeValues :
          NewV(t, rval) =>
              /\ \A id \in DOMAIN Table(t) : Table(t)'[id] = Table(t)[id]
              /\ \A c \in Channels : chans[c].sender => chans'[c].sender
      ]_vars

\* C16: the table is one per thread: a new_v on a thread changes no other
\* thread's table, and a resolve_future for an id that is in another
\* thread's table but not in the calling thread's panics with "no
\* transmitter found" and leaves every table, the other thread's entry
\* included, and every channel as it was.
C16_TablePerThread ==
    /\ [][call'.op = "new_v" =>
            \A t \in Threads, rval \in NativeValues :
                NewV(t, rval) => \A u \in Threads \ {t} : Table(u)' = Table(u)
       ]_vars
    /\ [][call'.op = "resolve_future" =>
            \A t \in Threads, id \in FutureIds, res \in Settlements :
                (ResolveFuture(t, id, res) /\ ~contains(Table(t), id)
                     /\ \E u \in Threads \ {t} : contains(Table(u), id)) =>
                    /\ call'.panic
                    /\ call'.ret = <<"no transmitter found">>
                    /\ UNCHANGED <<PROMISE_RESOLUTION_TRANSMITTERS, chans, received>>
       ]_vars

\* a settle has failed on the thread whose table is empty while the other
\* thread's table holds every id: it was for an id registered on the other
C16_Witness ==
    /\ call.op = "resolve_future"
    /\ call.panic
    /\ call.ret = <<"no transmitter found">>
    /\ \E t \in Threads :
           /\ DOMAIN Table(t) = FutureIds
           /\ \A u \in Threads \ {t} : DOMAIN Table(u) = {}
           /\ \A id \in FutureIds : chans[Table(t)[id]].sender

\* the channel the host is waiting on
WaitingOn == receiver_of(unwrap(waiting).esvf)

\* C17: the settle and the wait interleave in any order without losing the
\* result. A result that was sent stays queued until the wait on its handle
\* takes it (or the handle is dropped); a wait that starts after the settle
\* and a wait that was started before it both return that result; a settle
\* during the wait leaves the host waiting; a wait ends in a timeout only
\* when no result was sent to its channel and its Sender is still in a
\* table; and a wait that was started always returns (recv_timeout ends at
\* its deadline), so it returns the result when the settle came before.
C17_SettleAndWaitInterleave ==
    /\ [][chans' # chans =>
            \A c \in Channels :
                (chans[c].queue # <<>> /\ chans'[c].queue # chans[c].queue) =>
                    \/ is_some(waiting) /\ WaitingOn = c /\ waiting' = None
                            /\ call'.ret = Ok(Head(chans[c].queue))
                    \/ ~chans'[c].receiver
       ]_vars
    /\ [][(call'.op = "resolve_future" /\ is_some(waiting)) =>
            /\ waiting' = waiting
            /\ \A t \in Threads, id \in FutureIds, res \in Settlements :
                   (ResolveFuture(t, id, res)
                        /\ HashMap_get(Table(t), id) = Some(WaitingOn)) =>
                       /\ ~call'.panic
                       /\ chans'[WaitingOn].queue = <<res>>
       ]_vars
    /\ [][(is_some(waiting) /\ waiting' = None) =>
            /\ chans[WaitingOn].queue # <<>> =>
                   call'.ret = Ok(Head(chans[WaitingOn].queue))
            /\ call'.ret = Err("Timeout") =>
                   /\ Carried(WaitingOn) = 0
                   /\ \E t \in Threads, id \in FutureIds :
                          HashMap_get(Table(t), id) = Some(WaitingOn)
       ]_vars
    /\ []<>(waiting = None)

\* the host is inside the wait and the settle has just delivered to its channel
C17_Witness ==
    /\ is_some(waiting)
    /\ call.op = "resolve_future"
    /\ ~call.panic
    /\ chans[WaitingOn].queue # <<>>
    /\ received[WaitingOn] = 0

C20_SettleAfterDropPanics ==
    /\ [][call'.op = "drop" =>
            /\ PROMISE_RESOLUTION_TRANSMITTERS' = PROMISE_RESOLUTION_TRANSMITTERS
            /\ \A h \in 1..Len(facades) :
                   (is_some(facades[h]) /\ facades'[h] = None) =>
                       \A c \in Receivers(unwrap(facades[h])) : ~chans'[c].receiver
       ]_vars
    /\ [][call'.op = "resolve_future" =>
            \A t \in Threads, id \in FutureIds, res \in Settlements :
                ResolveFuture(t, id, res) =>
                    IF contains(Table(t), id) /\ ~chans[Table(t)[id]].receiver
                    THEN /\ call'.panic
                         /\ call'.ret = <<"could not send res">>
                         /\ ~contains(Table(t)', id)
                         /\ chans'[Table(t)[id]].queue = <<>>
                         /\ received' = received
                    ELSE call'.ret # <<"could not send res">>
       ]_vars

\* the settle of a future whose handle the host had dropped has panicked
C20_Witness ==
    /\ call.op = "resolve_future"
    /\ call.panic
    /\ call.ret = <<"could not send res">>
    /\ \E h \in 1..Len(facades) : facades[h] = None
    /\ \E c \in Channels : ~chans[c].receiver /\ ~chans[c].sender /\ received[c] = 0

\* C21: a channel that gave the host its result has no Sender and an empty
\* queue, so every further wait on that handle returns the disconnect: it
\* returns no result, neither the same nor another, and no timeout, and it
\* changes nothing. The same holds for a handle whose entry new_v replaced
\* before a settle: the replaced Sender is dropped and the wait on that
\* handle returns the disconnect. A wait ends in the disconnect only when
\* no table entry leads to its channel, and in a timeout only when one does.
C21_WaitAfterReceiveDisconnected ==
    /\ [](\A c \in Channels :
             received[c] >= 1 => ~chans[c].sender /\ chans[c].queue = <<>>)
    /\ [][(is_some(waiting) /\ waiting' = None) =>
            LET rx    == WaitingOn
                entry == \E t \in Threads, id \in FutureIds :
                             HashMap_get(Table(t), id) = Some(rx)
            IN  /\ (received[rx] >= 1 \/ (~chans[rx].sender /\ chans[rx].queue = <<>>)) =>
                       /\ call'.ret = Err("Disconnected")
                       /\ ~call'.panic
                       /\ UNCHANGED <<PROMISE_RESOLUTION_TRANSMITTERS, chans, received,
                                      facades>>
                /\ call'.ret = Err("Disconnected") => ~entry
                /\ call'.ret = Err("Timeout") => entry
       ]_vars
    /\ [][call'.op = "new_v" =>
            \A t \in Threads, rval \in NativeValues :
                NewV(t, rval) =>
                    \A id \in DOMAIN Table(t) :
                        Table(t)'[id] # Table(t)[id] =>
                            LET c == Table(t)[id]
                            IN  /\ ~chans'[c].sender
                                /\ chans'[c].queue = <<>>
                                /\ Receiver_recv_timeout(chans'[c]).ret
                                       = Err("Disconnected")
       ]_vars

\* the second wait on the only handle, which had received its result, has
\* returned the disconnect
C21_Witness ==
    /\ call.op = "get_promise_result_blocking"
    /\ call.ret = Err("Disconnected")
    /\ waiting = None
    /\ Len(chans) = 1
    /\ received[1] = 1
    /\ Len(facades) = 1
    /\ is_some(facades[1])

(***************************************************************************)
(* Claims about AutoIdMap (checked under MapSpec)                          *)
(***************************************************************************)
IssuedIds == {issued[i] : i \in 1..Len(issued)}

\* C8: every id insert returns is strictly greater than every id insert
\* returned before on this instance, whatever replace/get/remove calls came
\* in between; no id is zero and none is handed out twice, also after the
\* entry with that id was removed.
C8_InsertIdsStrictlyIncrease ==
    /\ \A i, j \in 1..Len(issued) : i < j => issued[i] < issued[j]
    /\ \A i \in 1..Len(issued) : issued[i] # 0
    /\ map_call.op = "insert" => map_call.ret = issued[Len(issued)]

\* an insert that follows the removal of an earlier entry
C8_Witness ==
    /\ map_call.op = "insert"
    /\ Len(issued) >= 3
    /\ \E i \in 1..(Len(issued) - 1) : issued[i] \notin DOMAIN auto_id_map.map

\* C9: remove on an id in the map returns the value stored under it and
\* removes only that entry (len one less, the other entries and last_id as
\* before); remove on an id not in the map (never inserted, or removed
\* before) panics and leaves the map and last_id as they were.
C9_RemoveContract ==
    [][map_call'.op = "remove" =>
        LET id == map_call'.id
            old == auto_id_map
            new == auto_id_map'
        IN  IF id \in DOMAIN old.map
            THEN /\ ~map_call'.panic
                 /\ map_call'.ret = old.map[id]
                 /\ DOMAIN new.map = DOMAIN old.map \ {id}
                 /\ \A k \in DOMAIN new.map : new.map[k] = old.map[k]
                 /\ AutoIdMap_len(new) = AutoIdMap_len(old) - 1
                 /\ new.last_id = old.last_id
            ELSE /\ map_call'.panic
                 /\ new = old]_vars

\* a remove of an id that insert returned and an earlier remove took away
C9_Witness ==
    /\ map_call.op = "remove"
    /\ map_call.panic
    /\ map_call.id \in IssuedIds
    /\ AutoIdMap_len(auto_id_map) > 0

\* C10 as stated: get on an id that is not in the map fails loudly.
C10_GetUnknownPanics ==
    (map_call.op = "get" /\ map_call.id \notin DOMAIN auto_id_map.map)
        => map_call.panic

\* C10, amended: get never panics and never changes the map or last_id; it
\* returns Some(the stored value) for an id in the map and None for an id
\* that was never inserted or was removed.
C10_GetReturnsOption ==
    [][map_call'.op = "get" =>
        /\ ~map_call'.panic
        /\ auto_id_map' = auto_id_map
        /\ map_call'.ret = IF map_call'.id \in DOMAIN auto_id_map.map
                           THEN Some(auto_id_map.map[map_call'.id])
                           ELSE None]_vars

\* a get of an id whose entry was removed
C10_Witness ==
    /\ map_call.op = "get"
    /\ map_call.id \in IssuedIds
    /\ map_call.id \notin DOMAIN auto_id_map.map
    /\ map_call.ret = None

\* C11: replace on an id in the map returns without a panic and changes only
\* the value stored under that id (key set, len and last_id as before, the
\* other values as before); replace on an id not in the map panics and
\* leaves the map and last_id as they were; so every key of the map is an id
\* that insert returned.
C11_ReplaceOnlyPresent ==
    /\ [](DOMAIN auto_id_map.map \subseteq IssuedIds)
    /\ [][map_call'.op = "replace" =>
            LET id  == map_call'.id
                old == auto_id_map
                new == auto_id_map'
            IN  IF id \in DOMAIN old.map
                THEN /\ ~map_call'.panic
                     /\ DOMAIN new.map = DOMAIN old.map
                     /\ new.map[id] = map_call'.elem
                     /\ \A k \in DOMAIN old.map \ {id} : new.map[k] = old.map[k]
                     /\ AutoIdMap_len(new) = AutoIdMap_len(old)
                     /\ new.last_id = old.last_id
                ELSE /\ map_call'.panic
                     /\ new = old
       ]_vars

\* a replace of an id that insert never returned has panicked, the map not empty
C11_Witness ==
    /\ map_call.op = "replace"
    /\ map_call.panic
    /\ map_call.id \notin IssuedIds
    /\ map_call.id # 0
    /\ AutoIdMap_len(auto_id_map) > 0

(***************************************************************************)
(* Claims about the conversions (checked under ConvSpec)                   *)
(***************************************************************************)
\* the facades the conversions made last, at any depth
ConvFacades == IF is_some(conv_esvf) THEN SubFacades(unwrap(conv_esvf)) ELSE {}

\* the variant predicates that hold of a facade
Tags(self) ==
    {tag \in {"string", "i32", "f64", "boolean", "object", "managed_object"} :
        CASE tag = "string" -> is_string(self)
          [] tag = "i32" -> is_i32(self)
          [] tag = "f64" -> is_f64(self)
          [] tag = "boolean" -> is_boolean(self)
          [] tag = "object" -> is_object(self)
          [] tag = "managed_object" -> is_managed_object(self)}

\* C12 as stated: of every facade a constructor or new_v made, at any depth,
\* at most one of is_string, is_i32, is_f64, is_boolean, is_object and
\* is_managed_object is true.
C12_OneTagActive ==
    \A self \in ConvFacades : Cardinality(Tags(self)) <= 1

\* the field a getter reads
field_of(name, self) ==
    CASE name = "get_string" -> self.val_string
      [] name = "get_i32" -> self.val_i32
      [] name = "get_f64" -> self.val_f64
      [] name = "get_boolean" -> self.val_boolean
      [] name = "get_object" -> self.val_object
      [] name = "get_managed_object_id" -> self.val_managed_var

\* the predicate of the type a getter asks for
tag_of(name) ==
    CASE name = "get_string" -> "string"
      [] name = "get_i32" -> "i32"
      [] name = "get_f64" -> "f64"
      [] name = "get_boolean" -> "boolean"
      [] name = "get_object" -> "object"
      [] name = "get_managed_object_id" -> "managed_object"

is_primitive(self) ==
    is_string(self) \/ is_i32(self) \/ is_f64(self) \/ is_boolean(self)

RECURSIVE Matches(_, _)
\* a facade is the structural image of a native value: the same kind, the
\* same payload, and for an object the same keys with matching values
Matches(rval, self) ==
    CASE rval.kind = "boolean" -> self = new_bool(rval.val)
      [] rval.kind = "int32" -> self = new_i32(rval.val)
      [] rval.kind = "double" -> self = new_f64(rval.val)
      [] rval.kind = "string" -> self = new_str(rval.val)
      [] rval.kind = "object" /\ HasSentinel(rval) -> is_managed_object(self)
      [] rval.kind = "object" /\ ~HasSentinel(rval) ->
             /\ Tags(self) = {"object"}
             /\ DOMAIN unwrap(self.val_object) = PropNames(rval)
             /\ Len(rval.val) = Cardinality(PropNames(rval))
             /\ \A i \in 1..Len(rval.val) :
                    Matches(rval.val[i][2], unwrap(self.val_object)[rval.val[i][1]])
      [] OTHER -> self = undefined

\* C15: new_v of a native object without the sentinel property returns an
\* object facade whose keys are the own property names of the object and
\* whose value under each key is the conversion of that property, at every
\* depth (d.a is 2 for {a: 1, b: true, c: "hello", d: {a: 2}}); to_es_value
\* of an object facade returns a native object that has, under each key of
\* the facade and under no other name, the conversion of the child.
C15_NestedObjectsStructural ==
    /\ [][(call'.op = "new_v" /\ unwrap(conv_rval).kind = "object"
                /\ ~HasSentinel(unwrap(conv_rval))) =>
             LET rval == unwrap(conv_rval)
                 self == unwrap(conv_esvf')
             IN  /\ Matches(rval, self)
                 /\ rval = TestObject =>
                        get_i32(get_object(get_object(self).ret["d"]).ret["a"]).ret = 2
       ]_vars
    /\ [][(call'.op = "to_es_value" /\ Tags(unwrap(conv_esvf)) = {"object"}) =>
             LET self == unwrap(conv_esvf)
                 rval == unwrap(conv_rval')
             IN  /\ rval.kind = "object"
                 /\ Matches(rval, self)
       ]_vars

\* the object of test_get_object went to the host and back to the engine
\* (d is now its first property) and was converted again, with d.a = 2
C15_Witness ==
    /\ call.op = "new_v"
    /\ is_some(conv_rval)
    /\ unwrap(conv_rval).kind = "object"
    /\ Len(unwrap(conv_rval).val) = 4
    /\ unwrap(conv_rval).val[1][1] = "d"
    /\ get_i32(get_object(get_object(unwrap(conv_esvf)).ret["d"]).ret["a"]).ret = 2

\* C19: new_v chooses by the kind of the native value, asked in the order
\* boolean, int32, double, string, object: a boolean gives a boolean facade,
\* an int32 an i32, a double an f64, a string a string, each with the
\* value's payload and no other tag; an object gives a facade for which
\* is_object holds; a value of any other kind (undefined, null, symbol)
\* gives the facade undefined(), for which every predicate is false; only
\* the conversion of an object can change a table or create a channel.
C19_KindSelectsVariant ==
    [][call'.op = "new_v" /\ is_some(conv_rval) /\ is_some(conv_esvf') =>
        LET rval == unwrap(conv_rval)
            self == unwrap(conv_esvf')
        IN  /\ CASE rval.kind = "boolean" ->
                      Tags(self) = {"boolean"} /\ get_boolean(self).ret = rval.val
                 [] rval.kind = "int32" ->
                      Tags(self) = {"i32"} /\ get_i32(self).ret = rval.val
                 [] rval.kind = "double" ->
                      Tags(self) = {"f64"} /\ get_f64(self).ret = rval.val
                 [] rval.kind = "string" ->
                      Tags(self) = {"string"} /\ get_string(self).ret = rval.val
                 [] rval.kind = "object" ->
                      /\ is_object(self)
                      /\ Tags(self) \subseteq {"object", "managed_object"}
                 [] OTHER ->
                      /\ Tags(self) = {}
                      /\ self = undefined
                      /\ \A name \in GetterNames : getter(name, self).panic
            /\ rval.kind # "object" =>
                   /\ PROMISE_RESOLUTION_TRANSMITTERS' = PROMISE_RESOLUTION_TRANSMITTERS
                   /\ Len(chans') = Len(chans)
      ]_vars

\* a symbol was converted: the facade is undefined()
C19_Witness ==
    /\ call.op = "new_v"
    /\ conv_rval = Some(SymbolValue)
    /\ conv_esvf = Some(undefined)

====
